---- MODULE Spec2Model ----
(***************************************************************************)
(* Prompt assembly and heuristic output scoring of the document-analysis   *)
(* pipeline (infrastructure/ai-foundry).                                   *)
(*                                                                         *)
(* Every public operation is a pure function, so a behaviour is one call:  *)
(* the initial state holds the arguments (pc = "call"), the operation's    *)
(* action computes its locals and its return value (pc = "done").          *)
(*                                                                         *)
(* Text.  A Python str is a sequence of atoms, each atom a TLA+ string.    *)
(* Text that the code inspects character by character (strip, split,       *)
(* regular expressions, json.loads) is a sequence of one-character atoms;  *)
(* a literal that the code only emits is one atom holding the literal.     *)
(* The string denoted is the concatenation of the atoms.  The backtick     *)
(* cannot be written in a TLA+ string, so the atom "BACKTICK" stands for   *)
(* that one character.                                                     *)
(***************************************************************************)
EXTENDS Integers, Sequences, FiniteSets, TLC

VARIABLES pc, args, locals, ret

vars == <<pc, args, locals, ret>>

(***************************************************************************)
(* Bounds of the model.                                                    *)
(***************************************************************************)
\* longest chat_history drawn
MaxMsgs == 3

\* longest skills_instructions drawn, in characters
MaxSkillsLen == 5

\* most blocks of text an output scored by completeness is made of
MaxBlocks == 3

\* most lexemes of a short JSON-like output scored by format_compliance
MaxJsonLexemes == 3

\* most blocks of a markdown-like output scored by format_compliance
MaxMdBlocks == 3

(***************************************************************************)
(* Characters and strings.                                                 *)
(***************************************************************************)
NL == "\n"

\* the backtick character
BACKTICK == "BACKTICK"

\* s[i], the empty atom past either end
At(s, i) == IF i \in 1..Len(s) THEN s[i] ELSE ""

\* s.startswith(lit, i - 1)
StartsWithAt(s, i, lit) ==
    i + Len(lit) - 1 <= Len(s) /\ SubSeq(s, i, i + Len(lit) - 1) = lit

\* Python None, and the value of locals and ret before the call
None == "None"

Range(s) == {s[i] : i \in 1..Len(s)}

\* str.isspace for the characters of the model
IsSpace(c) == c \in {" ", NL, "\t", "\r"}

Digits == <<"0", "1", "2", "3", "4", "5", "6", "7", "8", "9">>

DigitChars == Range(Digits)

IsDigit(c) == c \in DigitChars

\* code point of a digit, the only characters timestamps are drawn from
Ord(c) == 47 + (CHOOSE i \in 1..Len(Digits) : Digits[i] = c)

\* a < b for Python str: lexicographic by code point, a proper prefix first
RECURSIVE StrLess(_, _)
StrLess(a, b) ==
    IF b = <<>> THEN FALSE
    ELSE IF a = <<>> THEN TRUE
    ELSE IF Head(a) = Head(b) THEN StrLess(Tail(a), Tail(b))
    ELSE Ord(Head(a)) < Ord(Head(b))

\* a string as a JSON string literal (no character needs escaping)
Quote(s) == <<"\"">> \o s \o <<"\"">>

\* sep.join(parts)
RECURSIVE Join(_, _)
Join(sep, parts) ==
    IF parts = <<>> THEN <<>>
    ELSE IF Len(parts) = 1 THEN parts[1]
    ELSE parts[1] \o <<sep>> \o Join(sep, Tail(parts))

UpperLetters == <<"A", "B", "C", "D", "E", "F", "G", "H", "I", "J", "K", "L", "M",
                  "N", "O", "P", "Q", "R", "S", "T", "U", "V", "W", "X", "Y", "Z">>

LowerLetters == <<"a", "b", "c", "d", "e", "f", "g", "h", "i", "j", "k", "l", "m",
                  "n", "o", "p", "q", "r", "s", "t", "u", "v", "w", "x", "y", "z">>

\* str.lower, one character and a whole string
LowerOf ==
    [c \in Range(UpperLetters) |->
        LowerLetters[CHOOSE i \in 1..Len(UpperLetters) : UpperLetters[i] = c]]

LowerChar(c) == IF c \in DOMAIN LowerOf THEN LowerOf[c] ELSE c

RECURSIVE Lower(_)
Lower(s) == IF s = <<>> THEN <<>> ELSE <<LowerChar(Head(s))>> \o Lower(Tail(s))

\* s.replace(old, new) for one-character old and new
RECURSIVE Replace(_, _, _)
Replace(s, old, new) ==
    IF s = <<>> THEN <<>>
    ELSE <<IF Head(s) = old THEN new ELSE Head(s)>> \o Replace(Tail(s), old, new)

\* \w of the re module
WordChars == Range(UpperLetters) \cup Range(LowerLetters) \cup Range(Digits) \cup {"_"}

IsWordChar(c) == c \in WordChars

(***************************************************************************)
(* Regular expressions.  A pattern is a sequence of items: a literal       *)
(* character, a character class under * or +, the MULTILINE anchor ^, or   *)
(* the word boundary \b.  re.search is truthy iff some position admits a   *)
(* match, whatever the order in which the backtracking matcher tries them. *)
(***************************************************************************)
Lit(c) == [t |-> "lit", c |-> c]

RECURSIVE Lits(_)
Lits(s) == IF s = <<>> THEN <<>> ELSE <<Lit(Head(s))>> \o Lits(Tail(s))

StarOf(cls) == [t |-> "star", c |-> cls]

PlusOf(cls) == [t |-> "plus", c |-> cls]

BOL == [t |-> "bol", c |-> ""]

WordBoundary == [t |-> "wb", c |-> ""]

\* the classes \s, . (no newline), # and [\-\*\d\.]
InClass(cls, ch) ==
    CASE cls = "space" -> IsSpace(ch)
      [] cls = "dot" -> ch # NL
      [] cls = "hash" -> ch = "#"
      [] cls = "bullet" -> ch \in {"-", "*", "."} \/ IsDigit(ch)

RECURSIVE MatchHere(_, _, _, _, _)
MatchHere(pat, k, text, i, ignorecase) ==
    IF k > Len(pat) THEN TRUE
    ELSE LET item == pat[k]
             more == i <= Len(text)
         IN  CASE item.t = "lit" ->
                    /\ more
                    /\ IF ignorecase THEN LowerChar(text[i]) = LowerChar(item.c)
                                     ELSE text[i] = item.c
                    /\ MatchHere(pat, k + 1, text, i + 1, ignorecase)
               [] item.t = "star" ->
                    \/ MatchHere(pat, k + 1, text, i, ignorecase)
                    \/ /\ more
                       /\ InClass(item.c, text[i])
                       /\ MatchHere(pat, k, text, i + 1, ignorecase)
               [] item.t = "plus" ->
                    /\ more
                    /\ InClass(item.c, text[i])
                    /\ \/ MatchHere(pat, k + 1, text, i + 1, ignorecase)
                       \/ MatchHere(pat, k, text, i + 1, ignorecase)
               [] item.t = "bol" ->
                    /\ (i = 1 \/ text[i - 1] = NL)
                    /\ MatchHere(pat, k + 1, text, i, ignorecase)
               [] item.t = "wb" ->
                    /\ (i > 1 /\ IsWordChar(text[i - 1])) # (more /\ IsWordChar(text[i]))
                    /\ MatchHere(pat, k + 1, text, i, ignorecase)

\* bool(re.search(pattern, text, flags))
Search(pat, text, ignorecase) ==
    \E i \in 1..(Len(text) + 1) : MatchHere(pat, 1, text, i, ignorecase)

\* s.split(sep) for a one-character sep: every segment, the empty ones too
RECURSIVE SplitFrom(_, _, _, _)
SplitFrom(s, sep, i, cur) ==
    IF i > Len(s) THEN <<cur>>
    ELSE IF s[i] = sep THEN <<cur>> \o SplitFrom(s, sep, i + 1, <<>>)
    ELSE SplitFrom(s, sep, i + 1, Append(cur, s[i]))

Split(s, sep) == SplitFrom(s, sep, 1, <<>>)

\* list.reverse(), s[::-1]
RECURSIVE Reverse(_)
Reverse(s) == IF s = <<>> THEN <<>> ELSE Append(Reverse(Tail(s)), Head(s))

\* s.lstrip() and s.strip()
RECURSIVE LStrip(_)
LStrip(s) == IF s # <<>> /\ IsSpace(Head(s)) THEN LStrip(Tail(s)) ELSE s

Strip(s) == Reverse(LStrip(Reverse(LStrip(s))))


(***************************************************************************)
(* build_continuation_prompt                                               *)
(***************************************************************************)
\* dict.get(key, default)
Get(d, key, default) == IF key \in DOMAIN d THEN d[key] ELSE default

CONTINUATION_SYSTEM_PROMPT ==
    "You are an AI assistant helping refine and improve a document analysis.\nYou have access to the current working document and conversation history.\nWhen the user requests changes, provide the COMPLETE updated analysis, not just the changes.\nMaintain the same structure and format as the original analysis unless asked to change it.\nBe concise but thorough in your responses."

CURRENT_ANALYSIS_HEADING == "# Current Analysis\n"

HISTORY_HEADING == "\n# Conversation History\n"

NEW_REQUEST_HEADING == "\n# New Request\n"

UPDATE_INSTRUCTION ==
    "Please update the analysis based on this feedback. Provide the complete updated analysis, not just the changes."

\* key=lambda x: x.get("timestamp", "")
TimestampKey(msg) == Get(msg, "timestamp", <<>>)

\* one step of the stable descending sort: index i goes after every index
\* already placed whose key is not smaller (equal keys keep input order)
InsertDesc(history, placed, i) ==
    LET k == TimestampKey(history[i])
        before == {p \in 1..Len(placed) :
                      ~StrLess(TimestampKey(history[placed[p]]), k)}
        n == Cardinality(before)
    IN  SubSeq(placed, 1, n) \o <<i>> \o SubSeq(placed, n + 1, Len(placed))

RECURSIVE SortPrefix(_, _)
SortPrefix(history, n) ==
    IF n = 0 THEN <<>>
    ELSE InsertDesc(history, SortPrefix(history, n - 1), n)

\* sorted(chat_history, key=..., reverse=True), as the indices of the
\* messages of chat_history (a Python list holds references)
SortedDesc(history) == SortPrefix(history, Len(history))

\* lst[:k] with Python's slice semantics, negative k counting from the end
SliceTo(lst, k) ==
    IF k >= 0 THEN SubSeq(lst, 1, IF k < Len(lst) THEN k ELSE Len(lst))
    ELSE SubSeq(lst, 1, IF Len(lst) + k > 0 THEN Len(lst) + k ELSE 0)

\* a window left in most-recent-first order (the reverse() forgotten)
HistoryWindow_NoReverse(history, max_history_messages) ==
    SliceTo(SortedDesc(history), max_history_messages)

\* sorted(...)[:max_history_messages] followed by .reverse()
HistoryWindow(history, max_history_messages) ==
    Reverse(SliceTo(SortedDesc(history), max_history_messages))

RoleLabel(msg) == IF Get(msg, "role", None) = "user" THEN "User" ELSE "Assistant"

\* f"{role_label}: {msg.get('content', '')}"
MessageLine(msg) == <<RoleLabel(msg), ": ">> \o Get(msg, "content", <<>>)

RECURSIVE HistoryParts(_, _)
HistoryParts(history, window) ==
    IF window = <<>> THEN <<>>
    ELSE <<MessageLine(history[Head(window)]), <<>>>>
             \o HistoryParts(history, Tail(window))

\* the parts list of build_continuation_prompt
ContinuationParts(working_document, history, sorted_history, user_message) ==
    <<<<CURRENT_ANALYSIS_HEADING>>, working_document, <<>>>>
    \o (IF history # <<>> /\ sorted_history # <<>>
        THEN <<<<HISTORY_HEADING>>>> \o HistoryParts(history, sorted_history)
        ELSE <<>>)
    \o <<<<NEW_REQUEST_HEADING>>, <<"User: ">> \o user_message, <<>>,
         <<UPDATE_INSTRUCTION>>>>

\* the messages the model draws: each key may be absent
Timestamps == {<<>>, <<"1">>, <<"1", "0">>, <<"2">>}

Bodies == {[role |-> "user", content |-> <<"q">>],
           [role |-> "assistant", content |-> <<"a">>],
           [content |-> <<"n">>]}

Messages == Bodies \cup
            {[role |-> b.role, content |-> b.content, timestamp |-> t] :
                 b \in {x \in Bodies : "role" \in DOMAIN x}, t \in Timestamps}
            \cup {[content |-> <<"n">>, timestamp |-> t] : t \in Timestamps}

RECURSIVE SeqsUpTo(_, _)
SeqsUpTo(S, n) ==
    IF n = 0 THEN {<<>>}
    ELSE LET shorter == SeqsUpTo(S, n - 1)
         IN  shorter \cup {Append(s, x) : s \in {t \in shorter : Len(t) = n - 1}, x \in S}

InitContinuation ==
    /\ pc = "call"
    /\ args \in [working_document : {<<"D">>},
                 chat_history : SeqsUpTo(Messages, MaxMsgs),
                 user_message : {<<"U">>},
                 max_history_messages : (0 - MaxMsgs)..(MaxMsgs + 1)]
    /\ locals = None
    /\ ret = None

build_continuation_prompt ==
    /\ pc = "call"
    /\ LET sorted_history ==
               IF args.chat_history # <<>>
               THEN HistoryWindow(args.chat_history, args.max_history_messages)
               ELSE <<>>
       IN  /\ locals' = [sorted_history |-> sorted_history]
           /\ ret' = [system_prompt |-> CONTINUATION_SYSTEM_PROMPT,
                      user_prompt |->
                          Join(NL, ContinuationParts(args.working_document,
                                                     args.chat_history,
                                                     sorted_history,
                                                     args.user_message))]
    /\ pc' = "done"
    /\ UNCHANGED args

NextContinuation == build_continuation_prompt

SpecContinuation == InitContinuation /\ [][NextContinuation]_vars

(***************************************************************************)
(* Claims about build_continuation_prompt                                  *)
(***************************************************************************)
\* first index of atom a in text s, 0 when absent
IndexOf(s, a) ==
    IF a \in Range(s) THEN CHOOSE i \in 1..Len(s) : s[i] = a /\ \A j \in 1..(i - 1) : s[j] # a
    ELSE 0

\* the non-empty lines printed between the "Conversation History" heading
\* and the "New Request" heading of a user prompt
ListedLines(user_prompt) ==
    LET h == IndexOf(user_prompt, HISTORY_HEADING)
        r == IndexOf(user_prompt, NEW_REQUEST_HEADING)
    IN  IF h = 0 THEN <<>>
        ELSE SelectSeq(Split(SubSeq(user_prompt, h + 1, r - 1), NL),
                       LAMBDA line : line # <<>>)

DistinctTimestamps(history) ==
    \A i, j \in 1..Len(history) :
        i # j => TimestampKey(history[i]) # TimestampKey(history[j])

Min(a, b) == IF a < b THEN a ELSE b

\* the index of the message with exactly n messages more recent than it
NthMostRecent(history, n) ==
    CHOOSE i \in 1..Len(history) :
        Cardinality({j \in 1..Len(history) :
                        StrLess(TimestampKey(history[i]), TimestampKey(history[j]))}) = n

\* the min(k, n) most recent messages, oldest first
MostRecentAscending(history, k) ==
    LET m == Min(k, Len(history))
    IN  [r \in 1..m |-> MessageLine(history[NthMostRecent(history, m - r)])]

\* C1: with pairwise distinct timestamps (an absent timestamp counting as
\* the empty string) and max_history_messages >= 1, the messages listed in
\* the "Conversation History" section are exactly the min(k, n) messages
\* with the greatest timestamps, in ascending timestamp order.
C1_MostRecentChronological ==
    (pc = "done" /\ DistinctTimestamps(args.chat_history)
                 /\ args.max_history_messages >= 1)
    => ListedLines(ret.user_prompt)
           = MostRecentAscending(args.chat_history, args.max_history_messages)

\* three messages given out of order, one of them undated, window of two:
\* the two dated ones are listed, "10" before "2"
C1_Witness ==
    /\ pc = "done"
    /\ args.max_history_messages = 2
    /\ args.chat_history =
           <<[role |-> "user", content |-> <<"q">>, timestamp |-> <<"2">>],
             [role |-> "assistant", content |-> <<"a">>],
             [role |-> "assistant", content |-> <<"a">>, timestamp |-> <<"1", "0">>]>>
    /\ ListedLines(ret.user_prompt) = <<<<"Assistant", ": ", "a">>, <<"User", ": ", "q">>>>

\* C2: for every chat_history and every max_history_messages <= 0, and for
\* an empty chat_history with any max_history_messages, the history window
\* is empty and the user prompt holds no "Conversation History" heading
\* and no history message.
C2_NoHistoryWhenNonPositive ==
    (pc = "done" /\ (args.max_history_messages <= 0 \/ args.chat_history = <<>>))
    => /\ locals.sorted_history = <<>>
       /\ HISTORY_HEADING \notin Range(ret.user_prompt)
       /\ ListedLines(ret.user_prompt) = <<>>

\* position of index i in a sequence of distinct indices
PositionIn(idxs, i) == CHOOSE p \in 1..Len(idxs) : idxs[p] = i

\* C9: for max_history_messages >= 2, any two messages of the presented
\* window with equal timestamps appear in the relative order they held
\* after the stable descending sort of chat_history.
C9_TiesKeepSortedOrder ==
    (pc = "done" /\ args.max_history_messages >= 2)
    => LET window == locals.sorted_history
           sorted == SortedDesc(args.chat_history)
       IN  \A p, q \in 1..Len(window) :
               (p < q /\ TimestampKey(args.chat_history[window[p]])
                            = TimestampKey(args.chat_history[window[q]]))
               => PositionIn(sorted, window[p]) < PositionIn(sorted, window[q])

(***************************************************************************)
(* build_system_prompt                                                     *)
(***************************************************************************)
INSTRUCTIONS_HEADING == "\n## Instructions\n"

OUTPUT_FORMAT_HEADING == "\n## Output Format\n"

JSON_FORMAT_BLOCK ==
    "Provide your analysis as a valid JSON object with appropriate keys for the analysis type. Include 'summary', 'key_findings', and 'details' fields."

MARKDOWN_FORMAT_BLOCK ==
    "Provide your analysis in Markdown format with appropriate headings and structure. Use clear, professional language suitable for business communication."

\* a bullet list that keeps each line as written (line.strip() forgotten)
SkillBullets_Untrimmed(lines) ==
    LET kept == SelectSeq(lines, LAMBDA line : Strip(line) # <<>>)
    IN  [i \in 1..Len(kept) |-> <<"- ">> \o kept[i]]

\* for line in ...: if line.strip(): parts.append(f"- {line.strip()}")
SkillBullets(lines) ==
    LET kept == SelectSeq(lines, LAMBDA line : Strip(line) # <<>>)
    IN  [i \in 1..Len(kept) |-> <<"- ">> \o Strip(kept[i])]

\* the parts list of build_system_prompt
SystemParts(action_system_prompt, skills_instructions, output_format) ==
    <<action_system_prompt>>
    \o (IF skills_instructions # <<>> /\ Strip(skills_instructions) # <<>>
        THEN <<<<INSTRUCTIONS_HEADING>>>>
                 \o SkillBullets(Split(Strip(skills_instructions), NL))
                 \o <<<<>>>>
        ELSE <<>>)
    \o <<<<OUTPUT_FORMAT_HEADING>>>>
    \o (IF output_format = "structured_json"
        THEN <<<<JSON_FORMAT_BLOCK>>>>
        ELSE <<<<MARKDOWN_FORMAT_BLOCK>>>>)

SkillChars == {"a", "b", " ", NL}

InitSystem ==
    /\ pc = "call"
    /\ args \in [action_system_prompt : {<<>>, <<"P">>, <<"P", NL, "Q">>},
                 skills_instructions : SeqsUpTo(SkillChars, MaxSkillsLen),
                 output_format : {"structured_json", "markdown", "json"}]
    /\ locals = None
    /\ ret = None

build_system_prompt ==
    /\ pc = "call"
    /\ ret' = Join(NL, SystemParts(args.action_system_prompt,
                                   args.skills_instructions,
                                   args.output_format))
    /\ pc' = "done"
    /\ UNCHANGED <<args, locals>>

NextSystem == build_system_prompt

SpecSystem == InitSystem /\ [][NextSystem]_vars

(***************************************************************************)
(* Claims about build_system_prompt                                        *)
(***************************************************************************)
IsBlank(s) == \A i \in 1..Len(s) : IsSpace(s[i])

\* the non-blank lines of a text, each trimmed, in order
TrimmedNonBlankLines(text) ==
    LET kept == SelectSeq(Split(text, NL), LAMBDA line : ~IsBlank(line))
    IN  [i \in 1..Len(kept) |-> Strip(kept[i])]

\* what follows the action prompt in the returned text
AfterActionPrompt == SubSeq(ret, Len(args.action_system_prompt) + 1, Len(ret))

\* the non-empty lines between the "Instructions" heading and the
\* "Output Format" heading
InstructionLines ==
    LET h == IndexOf(AfterActionPrompt, INSTRUCTIONS_HEADING)
        o == IndexOf(AfterActionPrompt, OUTPUT_FORMAT_HEADING)
    IN  SelectSeq(Split(SubSeq(AfterActionPrompt, h + 1, o - 1), NL),
                  LAMBDA line : line # <<>>)

\* C10: the returned text starts with action_system_prompt verbatim; it
\* has the "Instructions" heading iff skills_instructions is non-blank,
\* and then one bullet per non-blank line of skills_instructions, trimmed,
\* in order; it ends with the "Output Format" heading and exactly one of
\* the two fixed blocks, the JSON block exactly for "structured_json".
C10_SystemPromptLayout ==
    pc = "done" =>
       LET rest == AfterActionPrompt
           wanted == TrimmedNonBlankLines(args.skills_instructions)
           block == IF args.output_format = "structured_json"
                    THEN JSON_FORMAT_BLOCK ELSE MARKDOWN_FORMAT_BLOCK
           other == IF args.output_format = "structured_json"
                    THEN MARKDOWN_FORMAT_BLOCK ELSE JSON_FORMAT_BLOCK
       IN  /\ SubSeq(ret, 1, Len(args.action_system_prompt)) = args.action_system_prompt
           /\ (INSTRUCTIONS_HEADING \in Range(rest)) <=> ~IsBlank(args.skills_instructions)
           /\ ~IsBlank(args.skills_instructions) =>
                  /\ IndexOf(rest, INSTRUCTIONS_HEADING) = 2
                  /\ InstructionLines = [i \in 1..Len(wanted) |-> <<"- ">> \o wanted[i]]
           /\ Len(rest) >= 4
           /\ SubSeq(rest, Len(rest) - 3, Len(rest))
                  = <<NL, OUTPUT_FORMAT_HEADING, NL, block>>
           /\ other \notin Range(rest)
           /\ Cardinality({i \in 1..Len(rest) : rest[i] = block}) = 1
           /\ Cardinality({i \in 1..Len(rest) : rest[i] = OUTPUT_FORMAT_HEADING}) = 1

\* two padded skill lines around a blank one give two trimmed bullets
C10_Witness ==
    /\ pc = "done"
    /\ args.action_system_prompt = <<"P">>
    /\ args.skills_instructions = <<" ", "a", NL, NL, "b">>
    /\ args.output_format = "structured_json"
    /\ ret = <<"P", NL, INSTRUCTIONS_HEADING, NL, "- ", "a", NL, "- ", "b", NL, NL,
               OUTPUT_FORMAT_HEADING, NL, JSON_FORMAT_BLOCK>>

(***************************************************************************)
(* completeness                                                            *)
(***************************************************************************)
\* floats are held as multiples of 1/60, which every score of the two
\* metrics is: a / b for b in {1, 2, 3, 5}, the quarters, 0.3 and 0.7
Frac(a, b) == (60 * a) \div b

KEY_summarize == <<"s", "u", "m", "m", "a", "r", "i", "z", "e">>

SECTIONS_summarize ==
    <<<<"s", "u", "m", "m", "a", "r", "y">>,
      <<"k", "e", "y", " ", "p", "o", "i", "n", "t", "s">>,
      <<"c", "o", "n", "c", "l", "u", "s", "i", "o", "n">>>>

KEY_review_agreement == <<"r", "e", "v", "i", "e", "w", "_", "a", "g", "r", "e", "e", "m", "e", "n", "t">>

SECTIONS_review_agreement ==
    <<<<"p", "a", "r", "t", "i", "e", "s">>,
      <<"t", "e", "r", "m", "s">>,
      <<"o", "b", "l", "i", "g", "a", "t", "i", "o", "n", "s">>,
      <<"r", "i", "s", "k", "s">>,
      <<"r", "e", "c", "o", "m", "m", "e", "n", "d", "a", "t", "i", "o", "n", "s">>>>

KEY_extract_entities == <<"e", "x", "t", "r", "a", "c", "t", "_", "e", "n", "t", "i", "t", "i", "e", "s">>

SECTIONS_extract_entities ==
    <<<<"e", "n", "t", "i", "t", "i", "e", "s">>,
      <<"r", "e", "l", "a", "t", "i", "o", "n", "s", "h", "i", "p", "s">>>>

KEY_classify_document == <<"c", "l", "a", "s", "s", "i", "f", "y", "_", "d", "o", "c", "u", "m", "e", "n", "t">>

SECTIONS_classify_document ==
    <<<<"c", "l", "a", "s", "s", "i", "f", "i", "c", "a", "t", "i", "o", "n">>,
      <<"c", "o", "n", "f", "i", "d", "e", "n", "c", "e">>,
      <<"r", "e", "a", "s", "o", "n", "i", "n", "g">>>>

KEY_default == <<"d", "e", "f", "a", "u", "l", "t">>

SECTIONS_default ==
    <<<<"s", "u", "m", "m", "a", "r", "y">>,
      <<"a", "n", "a", "l", "y", "s", "i", "s">>,
      <<"c", "o", "n", "c", "l", "u", "s", "i", "o", "n">>>>

\* ACTION_SECTIONS
ACTION_SECTIONS ==
    (KEY_summarize :> SECTIONS_summarize)
    @@ (KEY_review_agreement :> SECTIONS_review_agreement)
    @@ (KEY_extract_entities :> SECTIONS_extract_entities)
    @@ (KEY_classify_document :> SECTIONS_classify_document)
    @@ (KEY_default :> SECTIONS_default)

\* ACTION_SECTIONS.get(action_type.lower().replace(" ", "_"), ACTION_SECTIONS["default"])
ExpectedSections(action_type) ==
    Get(ACTION_SECTIONS, Replace(Lower(action_type), " ", "_"), ACTION_SECTIONS[KEY_default])

\* rf'#{1,3}\s*{section}': in an f-string {1,3} is a replacement field
\* holding the tuple (1, 3), so the pattern text is #(1, 3)\s*<section>,
\* a '#', the group "1, 3", optional whitespace and the section
HeadingPattern(section) ==
    Lits(<<"#">>) \o Lits(<<"1", ",", " ", "3">>) \o <<StarOf("space")>> \o Lits(section)

\* rf'\*\*{section}\*\*'
BoldPattern(section) == Lits(<<"*", "*">>) \o Lits(section) \o Lits(<<"*", "*">>)

\* rf'{section}:'
ColonPattern(section) == Lits(section) \o Lits(<<":">>)

\* rf'\b{section}\b'
WordPattern(section) == <<WordBoundary>> \o Lits(section) \o <<WordBoundary>>

SectionPatterns(section) ==
    <<HeadingPattern(section), BoldPattern(section), ColonPattern(section),
      WordPattern(section)>>

\* a loop without the break: every matching pattern adds one
MatchCount_NoBreak(patterns, output_lower) ==
    Cardinality({k \in 1..Len(patterns) : Search(patterns[k], output_lower, TRUE)})

\* for pattern in patterns: if re.search(...): found_sections += 1; break
MatchCount(patterns, output_lower) ==
    IF \E k \in 1..Len(patterns) : Search(patterns[k], output_lower, TRUE) THEN 1 ELSE 0

\* for section in expected_sections: ...
RECURSIVE CountFound(_, _)
CountFound(sections, output_lower) ==
    IF sections = <<>> THEN 0
    ELSE MatchCount(SectionPatterns(Head(sections)), output_lower)
         + CountFound(Tail(sections), output_lower)

\* the blocks of text the outputs are made of
OutputBlocks ==
    {<<"#", "#", " ", "S", "u", "m", "m", "a", "r", "y", NL>>,
     <<"#", "s", "u", "m", "m", "a", "r", "y", "x">>,
     <<"*", "*", "a", "n", "a", "l", "y", "s", "i", "s", "*", "*">>,
     <<"x", "c", "o", "n", "c", "l", "u", "s", "i", "o", "n", ":">>,
     <<"x", "a", "n", "a", "l", "y", "s", "i", "s", "x">>,
     <<"K", "e", "y", " ", "P", "o", "i", "n", "t", "s", " ">>,
     <<"e", "n", "t", "i", "t", "i", "e", "s">>,
     <<"#", "1", ",", " ", "3", " ", "r", "i", "s", "k", "s", "x">>,
     <<NL>>}

ActionTypes ==
    {<<"d", "e", "f", "a", "u", "l", "t">>,
     <<"S", "u", "m", "m", "a", "r", "i", "z", "e">>,
     <<"r", "e", "v", "i", "e", "w", " ", "a", "g", "r", "e", "e", "m", "e", "n", "t">>,
     <<"E", "X", "T", "R", "A", "C", "T", "_", "E", "N", "T", "I", "T", "I", "E", "S">>,
     <<"p", "r", "o", "o", "f", "r", "e", "a", "d">>,
     <<>>}

RECURSIVE Concat(_)
Concat(blocks) == IF blocks = <<>> THEN <<>> ELSE Head(blocks) \o Concat(Tail(blocks))

InitCompleteness ==
    /\ pc = "call"
    /\ args \in [output : {Concat(bs) : bs \in SeqsUpTo(OutputBlocks, MaxBlocks)},
                 action_type : ActionTypes]
    /\ locals = None
    /\ ret = None

completeness ==
    /\ pc = "call"
    /\ IF args.output = <<>> \/ Strip(args.output) = <<>>
       THEN /\ ret' = Frac(0, 1)
            /\ UNCHANGED locals
       ELSE LET expected_sections == ExpectedSections(args.action_type)
                found_sections == CountFound(expected_sections, Lower(args.output))
            IN  /\ locals' = [expected_sections |-> expected_sections,
                              found_sections |-> found_sections]
                /\ ret' = IF Len(expected_sections) = 0 THEN Frac(1, 1)
                          ELSE Frac(found_sections, Len(expected_sections))
    /\ pc' = "done"
    /\ UNCHANGED args

NextCompleteness == completeness

SpecCompleteness == InitCompleteness /\ [][NextCompleteness]_vars

(***************************************************************************)
(* Claims about completeness                                               *)
(***************************************************************************)
\* a markdown heading marker of depth 1 to 3, optional whitespace, then the
\* section label: what #{1,3}\s*<section> finds (a search for it succeeds
\* exactly where one for #+\s*<section> does)
MarkdownHeadingPattern(section) ==
    <<PlusOf("hash"), StarOf("space")>> \o Lits(section)

\* C7: for a non-blank output, every expected section whose label follows
\* a markdown heading marker ('#', '##' or '###', optional whitespace) is
\* counted as found, also when no other pattern form matches it.
C7_HeadingCountsAsFound ==
    (pc = "done" /\ ~IsBlank(args.output))
    => locals.found_sections >=
           Cardinality({i \in 1..Len(locals.expected_sections) :
                           Search(MarkdownHeadingPattern(locals.expected_sections[i]),
                                  Lower(args.output), TRUE)})

\* some pattern form of the section matches the lower-cased output
SectionFound(section, output) ==
    \E k \in 1..Len(SectionPatterns(section)) :
        Search(SectionPatterns(section)[k], Lower(output), TRUE)

\* C8: completeness returns 0.0 for a blank output and otherwise
\* (expected sections found) / (expected sections), within [0, 1]; the
\* expected sections are those of the normalized action_type, the default
\* set {summary, analysis, conclusion} when it is not in the mapping; each
\* section counts once.
C8_CompletenessRatio ==
    pc = "done" =>
       LET normalized == Replace(Lower(args.action_type), " ", "_")
           wanted == IF normalized \in {KEY_summarize, KEY_review_agreement,
                                        KEY_extract_entities, KEY_classify_document}
                     THEN ACTION_SECTIONS[normalized]
                     ELSE <<<<"s", "u", "m", "m", "a", "r", "y">>,
                            <<"a", "n", "a", "l", "y", "s", "i", "s">>,
                            <<"c", "o", "n", "c", "l", "u", "s", "i", "o", "n">>>>
           found == {i \in 1..Len(wanted) : SectionFound(wanted[i], args.output)}
       IN  /\ ret = IF IsBlank(args.output) THEN 0
                    ELSE (60 * Cardinality(found)) \div Len(wanted)
           /\ ret >= 0
           /\ ret <= 60

\* an unmapped action type scored against the default set: summary and
\* analysis found, conclusion missing, 2/3
C8_Witness ==
    /\ pc = "done"
    /\ args.action_type = <<"p", "r", "o", "o", "f", "r", "e", "a", "d">>
    /\ args.output = <<"#", "#", " ", "S", "u", "m", "m", "a", "r", "y", NL, "*", "*", "a", "n", "a", "l", "y", "s", "i", "s", "*", "*">>
    /\ locals.expected_sections = SECTIONS_default
    /\ locals.found_sections = 2
    /\ ret = 40

(***************************************************************************)
(* json.loads, for texts without backslash escapes, NaN and Infinity.      *)
(* A parsed value keeps what the scorer reads: its kind, a string's        *)
(* content, an object's keys, an array's string elements.                  *)
(***************************************************************************)
JsonWs == {" ", "\t", NL, "\r"}

RECURSIVE SkipJsonWs(_, _)
SkipJsonWs(s, i) == IF At(s, i) \in JsonWs THEN SkipJsonWs(s, i + 1) ELSE i

ParseFail == [ok |-> FALSE, next |-> 0, kind |-> "", str |-> <<>>, members |-> {}]

Parsed(kind, next, str, members) ==
    [ok |-> TRUE, next |-> next, kind |-> kind, str |-> str, members |-> members]

\* the closing quote of a string whose content starts at i, 0 when the
\* string is unterminated or holds a control character
RECURSIVE ClosingQuote(_, _)
ClosingQuote(s, i) ==
    IF i > Len(s) THEN 0
    ELSE IF s[i] = "\"" THEN i
    ELSE IF s[i] \in {NL, "\t", "\r"} THEN 0
    ELSE ClosingQuote(s, i + 1)

RECURSIVE DigitsEnd(_, _)
DigitsEnd(s, i) == IF IsDigit(At(s, i)) THEN DigitsEnd(s, i + 1) ELSE i

\* NUMBER_RE = (-?(?:0|[1-9]\d*))(\.\d+)?([eE][-+]?\d+)? matched at i:
\* the index after the match, 0 when there is none
NumberEnd(s, i) ==
    LET j == IF At(s, i) = "-" THEN i + 1 ELSE i
        int == IF At(s, j) = "0" THEN j + 1
               ELSE IF IsDigit(At(s, j)) THEN DigitsEnd(s, j)
               ELSE 0
        frac == IF At(s, int) = "." /\ IsDigit(At(s, int + 1))
                THEN DigitsEnd(s, int + 1) ELSE int
        sign == IF At(s, frac + 1) \in {"+", "-"} THEN frac + 2 ELSE frac + 1
        exp == IF At(s, frac) \in {"e", "E"} /\ IsDigit(At(s, sign))
               THEN DigitsEnd(s, sign) ELSE frac
    IN  IF int = 0 THEN 0 ELSE exp

RECURSIVE ParseValue(_, _)
RECURSIVE ParseMembers(_, _, _)
RECURSIVE ParseElements(_, _, _)

\* scan_once
ParseValue(s, i) ==
    LET c == At(s, i)
    IN  CASE c = "\"" ->
               LET q == ClosingQuote(s, i + 1)
               IN  IF q = 0 THEN ParseFail
                   ELSE Parsed("str", q + 1, SubSeq(s, i + 1, q - 1), {})
          [] c = "{" ->
               LET j == SkipJsonWs(s, i + 1)
               IN  IF At(s, j) = "}" THEN Parsed("dict", j + 1, <<>>, {})
                   ELSE IF At(s, j) = "\"" THEN ParseMembers(s, j, {})
                   ELSE ParseFail
          [] c = "[" ->
               LET j == SkipJsonWs(s, i + 1)
               IN  IF At(s, j) = "]" THEN Parsed("list", j + 1, <<>>, {})
                   ELSE ParseElements(s, j, {})
          [] c = "n" /\ StartsWithAt(s, i, <<"n", "u", "l", "l">>) ->
               Parsed("null", i + 4, <<>>, {})
          [] c = "t" /\ StartsWithAt(s, i, <<"t", "r", "u", "e">>) ->
               Parsed("bool", i + 4, <<>>, {})
          [] c = "f" /\ StartsWithAt(s, i, <<"f", "a", "l", "s", "e">>) ->
               Parsed("bool", i + 5, <<>>, {})
          [] OTHER ->
               IF NumberEnd(s, i) = 0 THEN ParseFail
               ELSE Parsed("number", NumberEnd(s, i), <<>>, {})

\* JSONObject, from the opening quote of a key at j
ParseMembers(s, j, keys) ==
    LET q == ClosingQuote(s, j + 1)
        key == SubSeq(s, j + 1, q - 1)
        colon == SkipJsonWs(s, q + 1)
        v == ParseValue(s, SkipJsonWs(s, colon + 1))
        m == SkipJsonWs(s, v.next)
        n == SkipJsonWs(s, m + 1)
    IN  IF q = 0 \/ At(s, colon) # ":" THEN ParseFail
        ELSE IF ~v.ok THEN ParseFail
        ELSE IF At(s, m) = "}" THEN Parsed("dict", m + 1, <<>>, keys \cup {key})
        ELSE IF At(s, m) = "," /\ At(s, n) = "\"" THEN ParseMembers(s, n, keys \cup {key})
        ELSE ParseFail

\* JSONArray, from the first character of an element at j
ParseElements(s, j, items) ==
    LET v == ParseValue(s, j)
        m == SkipJsonWs(s, v.next)
        more == IF v.kind = "str" THEN items \cup {v.str} ELSE items
    IN  IF ~v.ok THEN ParseFail
        ELSE IF At(s, m) = "]" THEN Parsed("list", m + 1, <<>>, more)
        ELSE IF At(s, m) = "," THEN ParseElements(s, SkipJsonWs(s, m + 1), more)
        ELSE ParseFail

\* json.loads(text): ParseFail stands for JSONDecodeError
JsonLoads(text) ==
    LET v == ParseValue(text, SkipJsonWs(text, 1))
    IN  IF v.ok /\ SkipJsonWs(text, v.next) > Len(text) THEN v ELSE ParseFail

(***************************************************************************)
(* format_compliance                                                       *)
(***************************************************************************)
Raised(exception) == [raised |-> exception]

Returned(value) == [value |-> value]

FIELD_summary == <<"s", "u", "m", "m", "a", "r", "y">>

FIELD_key_findings == <<"k", "e", "y", "_", "f", "i", "n", "d", "i", "n", "g", "s">>

FIELD_details == <<"d", "e", "t", "a", "i", "l", "s">>

\* expected_fields
expected_fields == <<FIELD_summary, FIELD_key_findings, FIELD_details>>

\* sub in s for Python str
IsSubstring(sub, s) == \E i \in 1..(Len(s) + 1) : StartsWithAt(s, i, sub)

\* f in data: a key of a dict, an element of a list, a substring of a str;
\* int, float, bool and None are not iterable
SupportsIn(data) == data.kind \in {"dict", "list", "str"}

FieldIn(f, data) ==
    IF data.kind = "str" THEN IsSubstring(f, data.str) ELSE f \in data.members

\* the first index >= i where lit starts, 0 when there is none
FirstAt(s, i, lit) ==
    IF \E j \in i..Len(s) : StartsWithAt(s, j, lit)
    THEN CHOOSE j \in i..Len(s) :
             StartsWithAt(s, j, lit) /\ \A k \in i..(j - 1) : ~StartsWithAt(s, k, lit)
    ELSE 0

FENCE == <<BACKTICK, BACKTICK, BACKTICK>>

FENCE_JSON == FENCE \o <<"j", "s", "o", "n">>

RECURSIVE SkipSpace(_, _)
SkipSpace(s, i) == IF i <= Len(s) /\ IsSpace(s[i]) THEN SkipSpace(s, i + 1) ELSE i

RECURSIVE BackOverSpace(_, _, _)
BackOverSpace(s, lo, i) ==
    IF i > lo /\ IsSpace(s[i - 1]) THEN BackOverSpace(s, lo, i - 1) ELSE i

\* re.search(r'(fence)json\s*([\s\S]*?)\s*(fence)', output): the leftmost
\* opening fence, the whitespace after it, the shortest group that brings
\* the match to a closing fence
FenceSearch(output) ==
    LET open == FirstAt(output, 1, FENCE_JSON)
        start == SkipSpace(output, open + Len(FENCE_JSON))
        close == FirstAt(output, start, FENCE)
    IN  IF open = 0 \/ close = 0 THEN [found |-> FALSE, group |-> <<>>]
        ELSE [found |-> TRUE,
              group |-> SubSeq(output, start, BackOverSpace(output, start, close) - 1)]

\* the scores of the fallback swapped
FenceScore_Swapped(output) ==
    LET json_match == FenceSearch(output)
    IN  IF json_match.found
        THEN IF JsonLoads(json_match.group).ok THEN Frac(3, 10) ELSE Frac(7, 10)
        ELSE Frac(0, 1)

\* the except json.JSONDecodeError branch of _check_json_format
FenceScore(output) ==
    LET json_match == FenceSearch(output)
    IN  IF json_match.found
        THEN IF JsonLoads(json_match.group).ok THEN Frac(7, 10) ELSE Frac(3, 10)
        ELSE Frac(0, 1)

\* _check_json_format: 0.5 + (0.5 * field_score)
check_json_format(output) ==
    LET data == JsonLoads(Strip(output))
        present_fields ==
            Cardinality({k \in 1..Len(expected_fields) : FieldIn(expected_fields[k], data)})
    IN  IF data.ok
        THEN IF SupportsIn(data)
             THEN Returned(Frac(1, 2) + Frac(present_fields, 2 * Len(expected_fields)))
             ELSE Raised("TypeError")
        ELSE Returned(FenceScore(output))

HeadingRe == <<BOL, PlusOf("hash"), PlusOf("space"), PlusOf("dot")>>

ListRe == <<BOL, PlusOf("bullet"), PlusOf("space"), PlusOf("dot")>>

RECURSIVE LineEnd(_, _)
LineEnd(s, i) == IF i <= Len(s) /\ s[i] # NL THEN LineEnd(s, i + 1) ELSE i

\* len(re.findall(r'\n\n.+', output)): the matches from i on, left to
\* right, each resuming after the line it consumed
RECURSIVE ParagraphMatches(_, _)
ParagraphMatches(s, i) ==
    IF i > Len(s) THEN 0
    ELSE IF s[i] = NL /\ At(s, i + 1) = NL /\ i + 2 <= Len(s) /\ s[i + 2] # NL
    THEN 1 + ParagraphMatches(s, LineEnd(s, i + 2))
    ELSE ParagraphMatches(s, i + 1)

\* the length below which the content check fails
MinContentLength == 100

\* _check_markdown_format: four checks of weight 0.25
check_markdown_format(output) ==
    LET has_headings == Search(HeadingRe, output, FALSE)
        has_paragraphs == ParagraphMatches(output, 1) >= 2
        has_lists == Search(ListRe, output, FALSE)
        has_content == Len(Strip(output)) >= MinContentLength
        checks == <<has_headings, has_paragraphs, has_lists, has_content>>
    IN  Returned(Frac(1, 4) * Cardinality({k \in 1..Len(checks) : checks[k]}))

\* the lexemes short JSON-like outputs are made of
JsonLexemes ==
    {<<"{">>, <<"}">>, <<"[">>, <<"]">>, <<":">>, <<",">>, <<"1">>, <<" ">>, <<"x">>,
     Quote(FIELD_summary), Quote(FIELD_details), FENCE_JSON, FENCE,
     <<"t", "r", "u", "e">>, <<"n", "u", "l", "l">>}

KeyOrder == <<FIELD_summary, FIELD_key_findings, FIELD_details, <<"o", "t", "h", "e", "r">>>>

\* the keys of KeyOrder picked by a set of indices, in order
RECURSIVE Pick(_, _)
Pick(idx, i) ==
    IF i > Len(KeyOrder) THEN <<>>
    ELSE (IF i \in idx THEN <<KeyOrder[i]>> ELSE <<>>) \o Pick(idx, i + 1)

\* json.dumps of an object with the given keys, every value 1
ObjectText(keys) ==
    <<"{">> \o Join(",", [i \in 1..Len(keys) |-> Quote(keys[i]) \o <<":", "1">>]) \o <<"}">>

\* json.dumps of an array of the given strings
ArrayText(items) ==
    <<"[">> \o Join(",", [i \in 1..Len(items) |-> Quote(items[i])]) \o <<"]">>

KeyLists == {Pick(idx, 1) : idx \in SUBSET (1..Len(KeyOrder))}

\* well-formed JSON values of every kind, and a few broken ones
JsonBodies ==
    {ObjectText(keys) : keys \in KeyLists}
    \cup {ArrayText(keys) : keys \in {k \in KeyLists : Len(k) <= 2}}
    \cup {Quote(FIELD_summary), Quote(FIELD_summary \o <<"_">> \o FIELD_details),
          Quote(<<"x">>), <<"1">>, <<"-", "1", ".", "5", "e", "+", "2">>, <<"0", "1">>,
          <<"t", "r", "u", "e">>, <<"f", "a", "l", "s", "e">>, <<"n", "u", "l", "l">>,
          <<"{">> \o Quote(<<"x">>) \o <<":">> \o ObjectText(<<FIELD_summary>>) \o <<"}">>,
          <<"[">> \o ObjectText(<<FIELD_summary>>) \o <<",", "1", "]">>,
          <<"{">> \o Quote(FIELD_summary) \o <<":", "1", ",", "}">>,
          <<"{">> \o FIELD_summary \o <<":", "1", "}">>,
          <<"n", "o", "t", " ", "j", "s", "o", "n">>}

\* a body as it is, padded, fenced, fenced inside prose, after a broken
\* fenced block, in an unlabelled fence and in an unclosed one
Wrappings(body) ==
    {body,
     <<" ", NL>> \o body \o <<NL>>,
     FENCE_JSON \o <<NL>> \o body \o <<NL>> \o FENCE,
     <<"x", " ">> \o FENCE_JSON \o body \o <<" ">> \o FENCE \o <<" ", "x">>,
     FENCE_JSON \o <<"x">> \o FENCE \o <<NL>> \o FENCE_JSON \o body \o FENCE,
     FENCE \o <<NL>> \o body \o <<NL>> \o FENCE,
     FENCE_JSON \o <<NL>> \o body}

\* n characters of prose
Filler(n) == [i \in 1..n |-> "a"]

MdBlocks ==
    {<<"#", " ", "T", NL>>, <<"#", "T">>, <<"-", " ", "i", NL>>, <<"1", ".", " ", "i">>, <<NL, NL, "P">>, <<" ">>, <<NL>>,
     Filler(MinContentLength), Filler(MinContentLength - 1)}

FormatOutputs ==
    {Concat(ls) : ls \in SeqsUpTo(JsonLexemes, MaxJsonLexemes)}
    \cup UNION {Wrappings(body) : body \in JsonBodies}
    \cup {Concat(bs) : bs \in SeqsUpTo(MdBlocks, MaxMdBlocks)}

InitFormat ==
    /\ pc = "call"
    /\ args \in [output : FormatOutputs, expected_format : {"json", "markdown"}]
    /\ locals = None
    /\ ret = None

format_compliance ==
    /\ pc = "call"
    /\ ret' = IF args.output = <<>> \/ Strip(args.output) = <<>>
             THEN Returned(Frac(0, 1))
             ELSE IF args.expected_format = "json"
             THEN check_json_format(args.output)
             ELSE check_markdown_format(args.output)
    /\ pc' = "done"
    /\ UNCHANGED <<args, locals>>

NextFormat == format_compliance

SpecFormat == InitFormat /\ [][NextFormat]_vars

(***************************************************************************)
(* Claims about format_compliance                                          *)
(***************************************************************************)
\* C3: format_compliance never fails: for every output and expected_format
\* it returns a score within [0.0, 1.0] and raises nothing, whatever kind of
\* JSON value the output parses as and also when it does not parse.
C3_AlwaysAScore ==
    pc = "done" =>
       /\ DOMAIN ret = {"value"}
       /\ ret.value >= 0
       /\ ret.value <= 60

\* C4: with expected_format "json", whenever the whole trimmed output
\* parses as a JSON value the score returned is exactly 0.5 + 0.5 * c / 3,
\* c the number of summary, key_findings, details that are top-level keys
\* of the parsed object (0.5 when it has none of them, 1.0 when it has all
\* three).  Stated of the calls that return a score; a call that raises
\* instead is the case of C3.
C4_ScoreFromTopLevelKeys ==
    (pc = "done" /\ args.expected_format = "json" /\ ~IsBlank(args.output)
                 /\ JsonLoads(Strip(args.output)).ok /\ "value" \in DOMAIN ret)
    => LET data == JsonLoads(Strip(args.output))
           c == Cardinality({f \in {FIELD_summary, FIELD_key_findings, FIELD_details} :
                                data.kind = "dict" /\ f \in data.members})
       IN  ret.value = 30 + 10 * c

\* a json-labelled fenced block opens at i: an opening fence there and a
\* closing fence somewhere after it
BlockOpensAt(output, i) ==
    /\ StartsWithAt(output, i, FENCE_JSON)
    /\ \E j \in (i + Len(FENCE_JSON))..Len(output) : StartsWithAt(output, j, FENCE)

\* the payload of the block that opens at i, up to the nearest closing fence
BlockPayload(output, i) ==
    LET j == CHOOSE j \in (i + Len(FENCE_JSON))..Len(output) :
                 /\ StartsWithAt(output, j, FENCE)
                 /\ \A k \in (i + Len(FENCE_JSON))..(j - 1) : ~StartsWithAt(output, k, FENCE)
    IN  SubSeq(output, i + Len(FENCE_JSON), j - 1)

BlockStarts(output) == {i \in 1..Len(output) : BlockOpensAt(output, i)}

TwoBlocksAroundBlankLine(output) ==
    \E i \in 1..Len(output) :
        /\ output[i] = NL
        /\ At(output, i + 1) = NL
        /\ \E j \in 1..(i - 1) : ~IsSpace(output[j])
        /\ \E k \in (i + 2)..Len(output) : ~IsSpace(output[k])

\* C6: for a non-blank output and an expected_format other than "json" the
\* score is 0.25 times the number of satisfied checks among a heading line,
\* paragraph structure, a list-item line and trimmed length >= 100, the
\* paragraph check being satisfied exactly when the output holds at least
\* two text blocks separated by a blank line.
C6_MarkdownChecks ==
    (pc = "done" /\ args.expected_format # "json" /\ ~IsBlank(args.output))
    => LET checks == <<Search(HeadingRe, args.output, FALSE),
                       TwoBlocksAroundBlankLine(args.output),
                       Search(ListRe, args.output, FALSE),
                       Len(Strip(args.output)) >= 100>>
       IN  ret = [value |-> 15 * Cardinality({k \in 1..Len(checks) : checks[k]})]

====
